---- MODULE Spec2Model ----
(***************************************************************************)
(* Model of the pdt-extractor server: start-up of the Express application *)
(* (src/index.ts), the API routes (src/routes.ts) and the database-backed *)
(* storage (src/storage.ts).  Each await of a handler is one step, so     *)
(* concurrent requests interleave exactly where the event loop lets them. *)
(* Strings whose characters matter (file names, header values, URL        *)
(* parameters) are sequences of code points.  SpecStartup is main() with  *)
(* the requests that arrive while it runs; Spec is the running server.    *)
(***************************************************************************)
EXTENDS Integers, Sequences, FiniteSets, TLC

VARIABLES mainPc, env, listening, stack,
          pdfDocuments, extractedTables, nextDocId, nextTableId,
          reqs

vars == <<mainPc, env, listening, stack,
          pdfDocuments, extractedTables, nextDocId, nextTableId, reqs>>

storageVars == <<pdfDocuments, extractedTables, nextDocId, nextTableId>>

startupVars == <<mainPc, env, listening, stack>>

(* ------------------------------ bounds -------------------------------- *)

MaxReqs == 2

MaxInFlight == 2

MaxTables == 2

MaxRows == 3

Reqs == 1..MaxReqs

(* ------------------------------ strings ------------------------------- *)

\* ".pdf"
PdfExt == <<46, 112, 100, 102>>

\* "attachment; filename="
DispositionPrefix ==
  <<97, 116, 116, 97, 99, 104, 109, 101, 110, 116, 59, 32,
    102, 105, 108, 101, 110, 97, 109, 101, 61>>

\* "-tables.xlsx"
ConsolidatedSuffix == <<45, 116, 97, 98, 108, 101, 115, 46, 120, 108, 115, 120>>

\* "table-"
TablePrefix == <<116, 97, 98, 108, 101, 45>>

\* ".xlsx"
XlsxExt == <<46, 120, 108, 115, 120>>

XlsxType == "application/vnd.openxmlformats-officedocument.spreadsheetml.sheet"

JsonType == "application/json"

\* position of the first occurrence of pat in s, 0 when there is none
IndexOf(s, pat) ==
  LET hits == { i \in 1..(Len(s) - Len(pat) + 1) :
                  SubSeq(s, i, i + Len(pat) - 1) = pat }
  IN IF hits = {} THEN 0 ELSE CHOOSE i \in hits : \A j \in hits : i <= j

\* String.prototype.replace with a string pattern: the first occurrence only
Replace(s, pat, rep) ==
  LET i == IndexOf(s, pat)
  IN IF i = 0 THEN s
     ELSE SubSeq(s, 1, i - 1) \o rep \o SubSeq(s, i + Len(pat), Len(s))

RECURSIVE Decimal(_)
\* the decimal digits of a non-negative integer (template literal ${n})
Decimal(n) ==
  IF n < 10 THEN <<48 + n>> ELSE Decimal(n \div 10) \o <<48 + (n % 10)>>

IsDigit(c) == c >= 48 /\ c <= 57

RECURSIVE DigitsValue(_, _)
DigitsValue(s, acc) ==
  IF s = <<>> \/ ~IsDigit(Head(s)) THEN acc
  ELSE DigitsValue(Tail(s), acc * 10 + (Head(s) - 48))

\* parseInt: the value of the leading decimal digits, NaN when there are none
ParseInt(s) ==
  IF s = <<>> \/ ~IsDigit(Head(s))
  THEN [isNaN |-> TRUE, value |-> 0]
  ELSE [isNaN |-> FALSE, value |-> DigitsValue(s, 0)]

\* http.ServerResponse.setHeader rejects a value holding a character outside
\* TAB, 0x20-0x7e, 0x80-0xff (ERR_INVALID_CHAR)
HeaderValueValid(v) ==
  \A i \in 1..Len(v) :
    v[i] = 9 \/ (v[i] >= 32 /\ v[i] <= 126) \/ (v[i] >= 128 /\ v[i] <= 255)

(* ------------------------------ uploads ------------------------------- *)

FileSizeLimit == 10 * 1024 * 1024

NoFile == [present |-> FALSE, originalname |-> <<>>, size |-> 0, mimetype |-> ""]

\* "a.pdf", a file name with a character outside latin1, an oversized pdf,
\* and a text file
Files ==
  { [present |-> TRUE, originalname |-> <<97>> \o PdfExt, size |-> 1024,
     mimetype |-> "application/pdf"],
    [present |-> TRUE, originalname |-> <<20013>> \o PdfExt, size |-> FileSizeLimit,
     mimetype |-> "application/pdf"],
    [present |-> TRUE, originalname |-> <<98>> \o PdfExt, size |-> FileSizeLimit + 1,
     mimetype |-> "application/pdf"],
    [present |-> TRUE, originalname |-> <<99>>, size |-> 10,
     mimetype |-> "text/plain"] }

\* fileFilter: only PDF files are accepted
FileFilter(f) == f.mimetype = "application/pdf"

\* variant: no size limit is enforced
WithinLimitUnchecked(f) == TRUE

\* limits.fileSize: a file longer than the limit is an error
WithinLimit(f) == f.size <= FileSizeLimit

\* upload.single('pdf'): what multer hands to the route
MulterOutcome(f) ==
  IF ~f.present THEN "nofile"
  ELSE IF ~FileFilter(f) THEN "rejected"
  ELSE IF ~WithinLimit(f) THEN "toolarge"
  ELSE "ok"

\* multer.memoryStorage(): the number of bytes of file.buffer
BufferLength(f) == IF f.size <= FileSizeLimit THEN f.size ELSE FileSizeLimit

(* ------------------------------ values -------------------------------- *)

NoError == [thrown |-> FALSE, isError |-> FALSE, message |-> "", at |-> ""]

Thrown(isErr, msg, at) == [thrown |-> TRUE, isError |-> isErr, message |-> msg, at |-> at]

\* what extractTablesFromPdf may throw: an Error, or a value that is no Error
ExtractionFailures ==
  { Thrown(TRUE, "Invalid PDF structure", "extract"),
    Thrown(FALSE, "", "extract") }

DbError(at) == Thrown(TRUE, "database error", at)

EncodeError == Thrown(TRUE, "workbook write failed", "encode")

NoBody == [kind |-> "none", error |-> "", documentId |-> 0, tables |-> <<>>,
           payload |-> <<>>]

NoResp == [status |-> 0, ctype |-> "", disp |-> <<>>, body |-> NoBody]

NoDoc == [id |-> 0, filename |-> <<>>, filesize |-> 0]

NoRow == [id |-> 0, documentId |-> 0, tableIndex |-> 0, pageNumber |-> 0,
          tableData |-> <<>>, tableInfo |-> [pageNumber |-> 0, tableIndex |-> 0]]

NoReq == [kind |-> "none", pc |-> "idle", file |-> NoFile, param |-> <<>>,
          handledBy |-> "", buffer |-> -1, tables |-> <<>>, i |-> 0,
          docId |-> 0, document |-> NoDoc, table |-> NoRow,
          encInput |-> <<>>, encCalls |-> 0, error |-> NoError, resp |-> NoResp]

\* The i-th table of the extraction result of upload r: tableIndex is the
\* zero-based ordinal, pages ascend (two tables on a page), the data is this
\* upload's own content.
MkTable(r, i) ==
  [tableIndex |-> i - 1,
   data |-> <<r, i>>,
   info |-> [pageNumber |-> 1 + ((i - 1) \div 2), tableIndex |-> i - 1]]

\* extractTablesFromPdf(buffer): the sequences it may return for upload r
ExtractResults(r) == { [i \in 1..n |-> MkTable(r, i)] : n \in 0..MaxTables }

\* URL parameters: "1x" (parseInt reads 1) and "x" (NaN)
IdParams == { <<49, 120>>, <<120>> }

(* ------------------------------ response ------------------------------ *)

\* res.status(s).json(b): Content-Type becomes application/json only when
\* no Content-Type was set before
Json(res, s, b) ==
  [res EXCEPT !.status = s,
              !.ctype = IF res.ctype = "" THEN JsonType ELSE res.ctype,
              !.body = b]

\* res.status(s).send(buffer)
Send(res, s, buf) ==
  [res EXCEPT !.status = s,
              !.ctype = IF res.ctype = "" THEN "application/octet-stream" ELSE res.ctype,
              !.body = [NoBody EXCEPT !.kind = "xlsx", !.payload = buf]]

ErrorBody(msg) == [NoBody EXCEPT !.kind = "error", !.error = msg]

\* variant: the thrown Error's message is dropped
ErrorMessageAlwaysUnknown(e) == "Unknown error"

\* error instanceof Error ? error.message : 'Unknown error'
ErrorMessage(e) == IF e.isError THEN e.message ELSE "Unknown error"

(* ------------------------------ storage ------------------------------- *)

\* getPdfDocument: the rows with this id (at most one)
GetPdfDocument(id) == { d \in pdfDocuments : d.id = id }

\* getExtractedTable: the rows with this id (at most one)
GetExtractedTable(id) == { t \in extractedTables : t.id = id }

\* all enumerations of a finite set as a sequence
Enumerations(S) ==
  { s \in [1..Cardinality(S) -> S] : \A i, j \in 1..Cardinality(S) : i # j => s[i] # s[j] }

\* variant: the query has no ORDER BY
OrderedByNothing(rows) == Enumerations(rows)

\* .orderBy(extractedTables.tableIndex): any enumeration in non-descending
\* tableIndex order (the order among equal keys is the database's choice)
OrderedByTableIndex(rows) ==
  { s \in Enumerations(rows) :
      \A i, j \in 1..Len(s) : i < j => s[i].tableIndex <= s[j].tableIndex }

\* the conversion to ExtractedTableData of getExtractedTablesByDocumentId
ToExtractedTableData(row) ==
  [tableIndex |-> row.tableIndex, data |-> row.tableData, info |-> row.tableInfo]

\* getExtractedTablesByDocumentId: the results the query may return
GetExtractedTablesByDocumentId(documentId) ==
  { [i \in 1..Len(s) |-> ToExtractedTableData(s[i])] :
      s \in OrderedByTableIndex({ t \in extractedTables : t.documentId = documentId }) }

\* variant: the page number column is filled from the table index
InsertExtractedTablePageFromIndex(q, t) ==
  [documentId |-> q.docId, tableIndex |-> t.tableIndex,
   pageNumber |-> t.tableIndex, tableData |-> t.data, tableInfo |-> t.info]

\* variant: the row is filed under the most recently created document
InsertExtractedTableLatestDocument(q, t) ==
  [documentId |-> nextDocId - 1, tableIndex |-> t.tableIndex,
   pageNumber |-> t.info.pageNumber, tableData |-> t.data, tableInfo |-> t.info]

\* the InsertExtractedTable value the upload route builds for one table
InsertExtractedTable(q, t) ==
  [documentId |-> q.docId, tableIndex |-> t.tableIndex,
   pageNumber |-> t.info.pageNumber, tableData |-> t.data, tableInfo |-> t.info]

\* createExtractedTable: the stored row, with its serial id
StoredRow(ins) ==
  [id |-> nextTableId, documentId |-> ins.documentId, tableIndex |-> ins.tableIndex,
   pageNumber |-> ins.pageNumber, tableData |-> ins.tableData,
   tableInfo |-> ins.tableInfo]

\* createPdfDocument: the stored row, with its serial id
StoredDocument(f) ==
  [id |-> nextDocId, filename |-> f.originalname, filesize |-> f.size]

(* ------------------------------ start-up ------------------------------ *)

\* variant: registerRoutes waits for something before app.use(router)
YieldPointsAwaitBeforeUse == {"registerRoutes", "awaitVite", "done"}

\* the positions of main() at which the event loop can dispatch a request:
\* inside setupVite (it waits for the Vite server) and after main has returned.
\* `await registerRoutes(app)` waits on a promise that is already resolved.
YieldPoints == {"awaitVite", "done"}

EventLoopFree == listening /\ mainPc \in YieldPoints

ApiPaths == {"/api/extract", "/api/tables/:id/excel", "/api/documents/:id/excel"}

\* does this middleware end the request for this path
Handles(mw, path) ==
  CASE mw = "router" -> path \in ApiPaths
    [] mw \in {"vite", "static"} -> TRUE
    [] OTHER -> FALSE

\* the first middleware of the stack that ends the request
FirstHandler(stk, path) ==
  LET hits == { i \in 1..Len(stk) : Handles(stk[i], path) }
  IN IF hits = {} THEN "finalhandler"
     ELSE stk[CHOOSE i \in hits : \A j \in hits : i <= j]

\* where next(err) ends up
ErrorHandlerFor(stk) ==
  IF \E i \in 1..Len(stk) : stk[i] = "errorHandler" THEN "errorHandler"
  ELSE "finalhandler"

MainBasicMiddleware ==
  /\ mainPc = "start"
  /\ stack' = stack \o <<"json", "urlencoded", "session">>
  /\ mainPc' = "listen"
  /\ UNCHANGED <<env, listening, storageVars, reqs>>

MainListen ==
  /\ mainPc = "listen"
  /\ listening' = TRUE
  /\ mainPc' = "registerRoutes"
  /\ UNCHANGED <<env, stack, storageVars, reqs>>

RegisterRoutes ==
  /\ mainPc = "registerRoutes"
  /\ stack' = Append(stack, "router")
  /\ mainPc' = "configure"
  /\ UNCHANGED <<env, listening, storageVars, reqs>>

ServeStatic ==
  /\ mainPc = "configure"
  /\ env = "production"
  /\ stack' = Append(stack, "static")
  /\ mainPc' = "errorHandler"
  /\ UNCHANGED <<env, listening, storageVars, reqs>>

SetupViteBegin ==
  /\ mainPc = "configure"
  /\ env # "production"
  /\ mainPc' = "awaitVite"
  /\ UNCHANGED <<env, listening, stack, storageVars, reqs>>

\* setupVite installs the Vite middleware and resolves; main continues in
\* the same turn of the event loop
SetupViteInstall ==
  /\ mainPc = "awaitVite"
  /\ stack' = Append(stack, "vite")
  /\ mainPc' = "errorHandler"
  /\ UNCHANGED <<env, listening, storageVars, reqs>>

InstallErrorHandler ==
  /\ mainPc = "errorHandler"
  /\ stack' = Append(stack, "errorHandler")
  /\ mainPc' = "done"
  /\ UNCHANGED <<env, listening, storageVars, reqs>>

(* ------------------------------ requests ------------------------------ *)

InFlight == { r \in Reqs : reqs[r].pc \notin {"idle", "done"} }

\* requests arrive in slot order, at most MaxInFlight of them unanswered
CanArrive(r) ==
  /\ EventLoopFree
  /\ Cardinality(InFlight) < MaxInFlight
  /\ reqs[r].pc = "idle"
  /\ \A o \in Reqs : o < r => reqs[o].pc # "idle"

Set(r, q) == reqs' = [reqs EXCEPT ![r] = q]

\* a request for a page of the client: answered by Vite or the static
\* files when installed, by Express's final handler (404) otherwise
ServePage(r) ==
  /\ CanArrive(r)
  /\ LET h == FirstHandler(stack, "/")
     IN Set(r, [NoReq EXCEPT !.kind = "page", !.pc = "done", !.handledBy = h,
                  !.resp = [NoResp EXCEPT !.status = IF h = "finalhandler" THEN 404 ELSE 200,
                                          !.ctype = "text/html",
                                          !.body = [NoBody EXCEPT !.kind = "html"]]])
  /\ UNCHANGED <<startupVars, storageVars>>

\* the catch block of POST /api/extract
ExtractCatch(q, e) ==
  [q EXCEPT !.pc = "done", !.error = e,
            !.resp = Json(q.resp, 500, ErrorBody(ErrorMessage(e)))]

\* variant: an upload without tables is answered as an error
ExtractRespondEmptyIsError(q, doc) ==
  IF q.tables = <<>>
  THEN ExtractCatch(q, Thrown(TRUE, "No tables found", "respond"))
  ELSE [q EXCEPT !.pc = "done",
                 !.resp = Json(q.resp, 200,
                               [NoBody EXCEPT !.kind = "extract", !.documentId = doc.id,
                                              !.tables = q.tables])]

\* the 200 response of POST /api/extract
ExtractRespond(q, doc) ==
  [q EXCEPT !.pc = "done",
            !.resp = Json(q.resp, 200,
                          [NoBody EXCEPT !.kind = "extract", !.documentId = doc.id,
                                         !.tables = q.tables])]

\* POST /api/extract arrives: multer, then the handler up to the call of
\* extractTablesFromPdf
ExtractStart(r) ==
  /\ CanArrive(r)
  /\ FirstHandler(stack, "/api/extract") = "router"
  /\ \E f \in Files \cup {NoFile} :
       LET q0 == [NoReq EXCEPT !.kind = "extract", !.file = f, !.handledBy = "router"]
           m == MulterOutcome(f)
       IN Set(r,
            CASE m = "nofile" ->
                   [q0 EXCEPT !.pc = "done",
                              !.resp = Json(NoResp, 400, ErrorBody("No PDF file uploaded"))]
              [] m = "ok" ->
                   [q0 EXCEPT !.pc = "extracting", !.buffer = BufferLength(f)]
              [] OTHER ->
                   [q0 EXCEPT !.pc = "done", !.handledBy = ErrorHandlerFor(stack),
                              !.error = Thrown(TRUE, m, "multer"),
                              !.resp = Json(NoResp, 500, ErrorBody(m))])
  /\ UNCHANGED <<startupVars, storageVars>>

\* extractTablesFromPdf settles; on success createPdfDocument is called
ExtractSettled(r) ==
  /\ EventLoopFree
  /\ reqs[r].kind = "extract" /\ reqs[r].pc = "extracting"
  /\ \/ \E ts \in ExtractResults(r) :
          Set(r, [reqs[r] EXCEPT !.pc = "createDoc", !.tables = ts])
     \/ \E e \in ExtractionFailures : Set(r, ExtractCatch(reqs[r], e))
  /\ UNCHANGED <<startupVars, storageVars>>

\* createPdfDocument settles; then the loop calls createExtractedTable for
\* the first table, or the response is sent when there is none
CreateDocSettled(r) ==
  /\ EventLoopFree
  /\ reqs[r].kind = "extract" /\ reqs[r].pc = "createDoc"
  /\ \/ LET doc == StoredDocument(reqs[r].file)
            q == [reqs[r] EXCEPT !.docId = doc.id, !.document = doc, !.i = 1]
        IN /\ pdfDocuments' = pdfDocuments \cup {doc}
           /\ nextDocId' = nextDocId + 1
           /\ Set(r, IF q.tables = <<>> THEN ExtractRespond(q, doc)
                     ELSE [q EXCEPT !.pc = "createTable"])
           /\ UNCHANGED <<extractedTables, nextTableId>>
     \/ /\ Set(r, ExtractCatch(reqs[r], DbError("createDoc")))
        /\ UNCHANGED storageVars
  /\ UNCHANGED startupVars

\* variant: the loop records the failure and goes on with the next table
TableInsertFailedContinue(q) ==
  LET q1 == [q EXCEPT !.i = q.i + 1, !.error = DbError("createTable")]
  IN IF q1.i > Len(q.tables) THEN ExtractRespond(q1, q.document) ELSE q1

\* what the loop of POST /api/extract does when createExtractedTable rejects
TableInsertFailed(q) == ExtractCatch(q, DbError("createTable"))

\* createExtractedTable settles for table i; the loop goes on to the next
\* table, or the response is sent after the last
CreateTableSettled(r) ==
  /\ EventLoopFree
  /\ reqs[r].kind = "extract" /\ reqs[r].pc = "createTable"
  /\ \/ LET q == reqs[r]
            row == StoredRow(InsertExtractedTable(q, q.tables[q.i]))
            q1 == [q EXCEPT !.i = q.i + 1]
        IN /\ nextTableId <= MaxRows
           /\ extractedTables' = extractedTables \cup {row}
           /\ nextTableId' = nextTableId + 1
           /\ Set(r, IF q1.i > Len(q.tables) THEN ExtractRespond(q1, q.document) ELSE q1)
           /\ UNCHANGED <<pdfDocuments, nextDocId>>
     \/ /\ Set(r, TableInsertFailed(reqs[r]))
        /\ UNCHANGED storageVars
  /\ UNCHANGED startupVars

(* ------------------------------ downloads ----------------------------- *)

\* variant: the catch block answers 200
DownloadCatchAnswers200(q, e) ==
  [q EXCEPT !.pc = "done", !.error = e,
            !.resp = Json(q.resp, 200, ErrorBody("Failed to generate Excel file"))]

\* the catch block of both download routes
DownloadCatch(q, e) ==
  [q EXCEPT !.pc = "done", !.error = e,
            !.resp = Json(q.resp, 500, ErrorBody("Failed to generate Excel file"))]

\* res.setHeader('Content-Disposition', v), for a value setHeader accepts
SetDisposition(res, v) == [res EXCEPT !.disp = v]

\* the end of both download routes once the encoder has returned buf: the two
\* setHeader calls, then res.status(200).send(buf); `name` is the file name
\* put into Content-Disposition
DownloadSend(q, name, buf) ==
  LET res1 == [q.resp EXCEPT !.ctype = XlsxType]
      v == DispositionPrefix \o name
  IN IF HeaderValueValid(v)
     THEN [q EXCEPT !.pc = "done", !.resp = Send(SetDisposition(res1, v), 200, buf)]
     ELSE DownloadCatch([q EXCEPT !.resp = res1],
                        Thrown(TRUE, "Invalid character in header content", "setHeader"))

\* generateExcelFile / generateConsolidatedExcel: the workbook written for
\* a sequence of tables, one sheet per table in input order
Workbook(input) == [sheets |-> input]

\* a download route arrives: parseInt of the :id parameter, then the first
\* storage call
DownloadStart(r, kind, path) ==
  /\ CanArrive(r)
  /\ FirstHandler(stack, path) = "router"
  /\ \E p \in IdParams :
       LET q0 == [NoReq EXCEPT !.kind = kind, !.param = p, !.handledBy = "router"]
       IN Set(r, IF ParseInt(p).isNaN
                 THEN [q0 EXCEPT !.pc = "done",
                         !.resp = Json(NoResp, 400,
                                       ErrorBody(IF kind = "tableExcel" THEN "Invalid table ID"
                                                 ELSE "Invalid document ID"))]
                 ELSE [q0 EXCEPT !.pc = IF kind = "tableExcel" THEN "getTable" ELSE "getDoc"])
  /\ UNCHANGED <<startupVars, storageVars>>

TableExcelStart(r) == DownloadStart(r, "tableExcel", "/api/tables/:id/excel")

DocExcelStart(r) == DownloadStart(r, "docExcel", "/api/documents/:id/excel")

\* getExtractedTable settles; a found table is handed to generateExcelFile
GetTableSettled(r) ==
  /\ EventLoopFree
  /\ reqs[r].kind = "tableExcel" /\ reqs[r].pc = "getTable"
  /\ LET q == reqs[r]
         found == GetExtractedTable(ParseInt(q.param).value)
     IN \/ /\ found = {}
           /\ Set(r, [q EXCEPT !.pc = "done",
                        !.resp = Json(q.resp, 404, ErrorBody("Table not found"))])
        \/ \E t \in found :
             Set(r, [q EXCEPT !.pc = "encoding", !.table = t,
                              !.encInput = <<t.tableData>>, !.encCalls = q.encCalls + 1])
  /\ UNCHANGED <<startupVars, storageVars>>

\* generateExcelFile settles
TableEncodeSettled(r) ==
  /\ EventLoopFree
  /\ reqs[r].kind = "tableExcel" /\ reqs[r].pc = "encoding"
  /\ LET q == reqs[r]
     IN \/ Set(r, DownloadSend(q, TablePrefix \o Decimal(ParseInt(q.param).value) \o XlsxExt,
                               Workbook(q.encInput)))
        \/ Set(r, DownloadCatch(q, EncodeError))
  /\ UNCHANGED <<startupVars, storageVars>>

\* getPdfDocument settles; for a found document the tables are queried
GetDocSettled(r) ==
  /\ EventLoopFree
  /\ reqs[r].kind = "docExcel" /\ reqs[r].pc = "getDoc"
  /\ LET q == reqs[r]
         found == GetPdfDocument(ParseInt(q.param).value)
     IN \/ /\ found = {}
           /\ Set(r, [q EXCEPT !.pc = "done",
                        !.resp = Json(q.resp, 404, ErrorBody("Document not found"))])
        \/ \E d \in found : Set(r, [q EXCEPT !.pc = "getTables", !.document = d])
  /\ UNCHANGED <<startupVars, storageVars>>

\* the sequence GET /api/documents/:id/excel hands to generateConsolidatedExcel
ConsolidatedInput(tables) == [i \in 1..Len(tables) |-> tables[i].data]

\* getExtractedTablesByDocumentId settles; a non-empty result is handed to
\* generateConsolidatedExcel
GetTablesSettled(r) ==
  /\ EventLoopFree
  /\ reqs[r].kind = "docExcel" /\ reqs[r].pc = "getTables"
  /\ LET q == reqs[r]
     IN \/ \E tables \in GetExtractedTablesByDocumentId(ParseInt(q.param).value) :
             Set(r, IF Len(tables) = 0
                    THEN [q EXCEPT !.pc = "done",
                            !.resp = Json(q.resp, 404, ErrorBody("No tables found in document"))]
                    ELSE [q EXCEPT !.pc = "encoding",
                                   !.encInput = ConsolidatedInput(tables),
                                   !.encCalls = q.encCalls + 1])
  /\ UNCHANGED <<startupVars, storageVars>>

\* generateConsolidatedExcel settles
DocEncodeSettled(r) ==
  /\ EventLoopFree
  /\ reqs[r].kind = "docExcel" /\ reqs[r].pc = "encoding"
  /\ LET q == reqs[r]
     IN \/ Set(r, DownloadSend(q, Replace(q.document.filename, PdfExt, <<>>)
                                    \o ConsolidatedSuffix,
                               Workbook(q.encInput)))
        \/ Set(r, DownloadCatch(q, EncodeError))
  /\ UNCHANGED <<startupVars, storageVars>>

(* --------------------------- specification ---------------------------- *)

\* the middleware stack once main() has returned
RunningStack(e) ==
  <<"json", "urlencoded", "session", "router",
    IF e = "production" THEN "static" ELSE "vite", "errorHandler">>

NoStorage ==
  /\ pdfDocuments = {}
  /\ extractedTables = {}
  /\ nextDocId = 1
  /\ nextTableId = 1
  /\ reqs = [r \in Reqs |-> NoReq]

\* the process starts
InitStartup ==
  /\ mainPc = "start"
  /\ env \in {"production", "development"}
  /\ listening = FALSE
  /\ stack = <<>>
  /\ NoStorage

\* main() has returned and the server is listening
Init ==
  /\ mainPc = "done"
  /\ env \in {"production", "development"}
  /\ listening = TRUE
  /\ stack = RunningStack(env)
  /\ NoStorage

Arrival ==
  \/ \E r \in Reqs : ExtractStart(r)
  \/ \E r \in Reqs : TableExcelStart(r)
  \/ \E r \in Reqs : DocExcelStart(r)

Next ==
  \/ Arrival
  \/ \E r \in Reqs : ExtractSettled(r)
  \/ \E r \in Reqs : CreateDocSettled(r)
  \/ \E r \in Reqs : CreateTableSettled(r)
  \/ \E r \in Reqs : GetTableSettled(r)
  \/ \E r \in Reqs : TableEncodeSettled(r)
  \/ \E r \in Reqs : GetDocSettled(r)
  \/ \E r \in Reqs : GetTablesSettled(r)
  \/ \E r \in Reqs : DocEncodeSettled(r)

\* the requests served by a running server
Spec == Init /\ [][Next]_vars

NextStartup ==
  \/ MainBasicMiddleware
  \/ MainListen
  \/ RegisterRoutes
  \/ ServeStatic
  \/ SetupViteBegin
  \/ SetupViteInstall
  \/ InstallErrorHandler
  \/ Arrival
  \/ \E r \in Reqs : ServePage(r)

\* start-up of the process, with the requests that arrive meanwhile
SpecStartup == InitStartup /\ [][NextStartup]_vars

TypeOK ==
  /\ mainPc \in {"start", "listen", "registerRoutes", "configure", "awaitVite",
                 "errorHandler", "done"}
  /\ listening \in BOOLEAN
  /\ nextDocId \in 1..(MaxReqs + 1)
  /\ nextTableId \in 1..(MaxRows + 1)
  /\ \A r \in Reqs : reqs[r].pc \in {"idle", "extracting", "createDoc", "createTable",
                                     "getTable", "getDoc", "getTables", "encoding", "done"}

(* ------------------------------ properties ---------------------------- *)

Uploads == { r \in Reqs : reqs[r].kind = "extract" }

Downloads == { r \in Reqs : reqs[r].kind \in {"tableExcel", "docExcel"} }

RowsOf(d) == { t \in extractedTables : t.documentId = d }

\* the uploads that created document d
CreatorsOf(d) == { u \in Uploads : reqs[u].docId = d }

\* row is what table t of an extraction result is stored as
RowHolds(row, t) ==
  /\ row.tableIndex = t.tableIndex
  /\ row.pageNumber = t.info.pageNumber
  /\ row.tableData = t.data
  /\ row.tableInfo = t.info

\* extractTablesFromPdf has returned for this upload
ExtractionReturned(q) ==
  /\ q.kind = "extract"
  /\ q.pc \in {"createDoc", "createTable"} \/ (q.pc = "done" /\ q.buffer # -1 /\ q.error.at # "extract")

\* C1: after POST /api/extract has answered 200 for the extraction result T,
\* getExtractedTablesByDocumentId(savedDocument.id) returns exactly T
\* (same tableIndex, data and info, one entry per table, ascending tableIndex),
\* and every table of T is retrievable by its own table id through
\* getExtractedTable with tableIndex, pageNumber = info.pageNumber, tableData
\* and tableInfo unchanged.
C1_RoundTrip ==
  \A r \in Uploads :
    (reqs[r].pc = "done" /\ reqs[r].resp.status = 200) =>
      LET T == reqs[r].tables
          d == reqs[r].resp.body.documentId
      IN /\ \A got \in GetExtractedTablesByDocumentId(d) :
              /\ got = T
              /\ \A i, j \in 1..Len(got) : i < j => got[i].tableIndex < got[j].tableIndex
         /\ \A i \in 1..Len(T) :
              \E row \in RowsOf(d) :
                /\ GetExtractedTable(row.id) = {row}
                /\ RowHolds(row, T[i])

C1_Witness ==
  \E r \in Uploads :
    /\ reqs[r].pc = "done" /\ reqs[r].resp.status = 200
    /\ Len(reqs[r].tables) >= 2
    /\ Cardinality(RowsOf(reqs[r].docId)) = Len(reqs[r].tables)

\* C2 (as stated): when persisting one table of an upload fails, the remaining
\* tables of that upload are still submitted and the caller receives a
\* combined result (the succeeded items plus the failures).
C2_BatchAggregation ==
  \A r \in Uploads :
    reqs[r].error.at = "createTable" =>
      /\ reqs[r].i = Len(reqs[r].tables)
      /\ reqs[r].resp.body.kind = "extract"

\* C2 (amended): persistence is sequential with first-failure abort: when
\* persisting table i of an upload fails, no later table of that upload is
\* submitted, the caller is answered 500 with the error's message and no
\* table list, and the document and the i-1 tables stored before stay stored.
C2_FirstFailureAbort ==
  \A r \in Uploads :
    reqs[r].error.at = "createTable" =>
      LET q == reqs[r]
      IN /\ q.pc = "done"
         /\ q.i \in 1..Len(q.tables)
         /\ q.resp.status = 500
         /\ q.resp.body.kind = "error"
         /\ q.resp.body.error = q.error.message
         /\ q.resp.body.tables = <<>>
         /\ GetPdfDocument(q.docId) # {}
         /\ Cardinality(RowsOf(q.docId)) = q.i - 1
         /\ \A k \in 1..(q.i - 1) : \E row \in RowsOf(q.docId) : RowHolds(row, q.tables[k])

C2_Witness ==
  \E r \in Uploads :
    /\ reqs[r].error.at = "createTable"
    /\ reqs[r].i < Len(reqs[r].tables)
    /\ \E o \in Uploads : reqs[o].error.at = "createTable" /\ reqs[o].i > 1

\* C3: extractTablesFromPdf is invoked only with the complete buffer of an
\* uploaded file that passed the 10 MB limit and the application/pdf filter;
\* a request without a file is answered 400 and neither invokes extraction
\* nor writes to storage (every stored document belongs to an upload whose
\* file passed the gate).
C3_UploadGate ==
  /\ \A r \in Uploads :
       LET q == reqs[r]
       IN /\ q.buffer # -1 =>
               /\ q.file.present
               /\ q.file.mimetype = "application/pdf"
               /\ q.file.size <= 10 * 1024 * 1024
               /\ q.buffer = q.file.size
          /\ ~q.file.present =>
               /\ q.pc = "done"
               /\ q.resp.status = 400
               /\ q.buffer = -1
               /\ q.docId = 0
  /\ \A d \in pdfDocuments :
       \E r \in Uploads : reqs[r].docId = d.id /\ reqs[r].buffer # -1
  /\ \A t \in extractedTables : GetPdfDocument(t.documentId) # {}

C3_Witness ==
  /\ \E r \in Uploads : reqs[r].buffer = 10 * 1024 * 1024 /\ reqs[r].docId # 0
  /\ \E r \in Uploads : ~reqs[r].file.present /\ reqs[r].resp.status = 400

\* C4: when GET /api/documents/:id/excel hands a sequence to
\* generateConsolidatedExcel, that sequence is non-empty and holds exactly one
\* TableData per table stored for the document at that moment, in ascending
\* tableIndex order, which is the order in which its upload extracted them;
\* a document without tables is never handed to the encoder.
C4_ConsolidatedInput ==
  [][\A r \in Reqs :
       (reqs[r].kind = "docExcel" /\ reqs[r].pc = "getTables" /\ reqs'[r] # reqs[r]) =>
         LET d == reqs[r].document.id
             input == reqs'[r].encInput
         IN /\ reqs'[r].encCalls <= 1
            /\ reqs'[r].encCalls = 1 <=> reqs'[r].pc = "encoding"
            /\ RowsOf(d) = {} => reqs'[r].encCalls = 0 /\ reqs'[r].resp.status \in {404, 500}
            /\ reqs'[r].encCalls = 1 =>
                 /\ input # <<>>
                 /\ Len(input) = Cardinality(RowsOf(d))
                 /\ \A i \in 1..Len(input) :
                      /\ \E row \in RowsOf(d) : row.tableIndex = i - 1 /\ row.tableData = input[i]
                      /\ \A u \in CreatorsOf(d) : input[i] = reqs[u].tables[i].data]_vars

C4_Witness ==
  \E r \in Reqs :
    /\ reqs[r].kind = "docExcel" /\ reqs[r].pc = "done" /\ reqs[r].resp.status = 200
    /\ Len(reqs[r].encInput) >= 2
    /\ Len(reqs[r].resp.body.payload.sheets) = Len(reqs[r].encInput)

\* C5: neither download route ever changes the stored documents or tables,
\* whether it succeeds or fails; when the encoder fails, that request is
\* answered 500 without encoder output and no other request is touched.
C5_RequestScoped ==
  [][\A r \in Reqs :
       (reqs'[r] # reqs[r] /\ reqs'[r].kind \in {"tableExcel", "docExcel"}) =>
         /\ UNCHANGED storageVars
         /\ \A o \in Reqs \ {r} : reqs'[o] = reqs[o]
         /\ reqs'[r].error.at = "encode" =>
              /\ reqs'[r].pc = "done"
              /\ reqs'[r].resp.status = 500
              /\ reqs'[r].resp.body.kind = "error"]_vars

C5_Witness ==
  /\ extractedTables # {}
  /\ \E r \in Downloads : reqs[r].error.at = "encode" /\ reqs[r].resp.status = 500

\* C6: when extractTablesFromPdf returns an empty sequence, the upload is not
\* an error: once the document record is inserted the request is answered
\* 200 with an empty tables list, the document is stored and no table row
\* exists for it (a request is answered 500 only when the document insert
\* itself is rejected by the database, and then nothing is stored).
C6_EmptyResult ==
  \A r \in Uploads :
    (ExtractionReturned(reqs[r]) /\ reqs[r].tables = <<>> /\ reqs[r].pc = "done") =>
      LET q == reqs[r]
      IN IF q.error.thrown
         THEN q.error.at = "createDoc" /\ q.resp.status = 500 /\ q.docId = 0
         ELSE /\ q.resp.status = 200
              /\ q.resp.body.kind = "extract"
              /\ q.resp.body.tables = <<>>
              /\ \E d \in pdfDocuments :
                   /\ d.id = q.resp.body.documentId
                   /\ d.filename = q.file.originalname
                   /\ d.filesize = q.file.size
              /\ RowsOf(q.resp.body.documentId) = {}

C6_Witness ==
  \E r \in Uploads :
    /\ ExtractionReturned(reqs[r]) /\ reqs[r].tables = <<>> /\ reqs[r].pc = "done"
    /\ reqs[r].resp.status = 200
    /\ GetPdfDocument(reqs[r].docId) # {}

\* C7: when extractTablesFromPdf throws, the upload is answered 500 with the
\* thrown Error's message ('Unknown error' for a thrown value that is no
\* Error), neither a document nor a table row is stored for it, and the
\* server goes on accepting requests.
C7_ExtractionFailure ==
  \A r \in Uploads :
    reqs[r].error.at = "extract" =>
      LET q == reqs[r]
      IN /\ q.pc = "done"
         /\ q.resp.status = 500
         /\ q.resp.body.kind = "error"
         /\ q.error.isError => q.resp.body.error = q.error.message
         /\ ~q.error.isError => q.resp.body.error = "Unknown error"
         /\ q.docId = 0
         /\ Cardinality(pdfDocuments) = Cardinality({ u \in Uploads : reqs[u].docId # 0 })
         /\ \A t \in extractedTables : \E u \in Uploads \ {r} : t.documentId = reqs[u].docId
         /\ (EventLoopFree /\ Cardinality(InFlight) < MaxInFlight
               /\ \E o \in Reqs : reqs[o].pc = "idle")
              => ENABLED (\E o \in Reqs : ExtractStart(o))

C7_Witness ==
  \E r, o \in Uploads :
    /\ r < o
    /\ reqs[r].error.at = "extract" /\ reqs[r].error.isError
    /\ reqs[o].pc = "done" /\ reqs[o].resp.status = 200

\* C8 (as stated): every 200 of the two download routes carries the
\* spreadsheet Content-Type, a Content-Disposition with a file name and the
\* encoder output; every 400/404/500 of these routes carries neither the
\* encoder output nor these headers.
C8_DownloadHeaders ==
  \A r \in Downloads :
    reqs[r].pc = "done" =>
      LET res == reqs[r].resp
      IN /\ res.status \in {200, 400, 404, 500}
         /\ res.status = 200 =>
              /\ res.ctype = XlsxType
              /\ IndexOf(res.disp, DispositionPrefix) = 1
              /\ IndexOf(res.disp, XlsxExt) > Len(DispositionPrefix)
              /\ res.body.kind = "xlsx"
         /\ res.status # 200 =>
              /\ res.body.kind # "xlsx"
              /\ res.ctype # XlsxType
              /\ res.disp = <<>>

\* C9: at every moment, under every interleaving of uploads and after a
\* failed insert too, every stored table row belongs to an existing document,
\* every document was created by exactly one upload, and the rows stored
\* under a document are a prefix, in extraction order, of the tables that
\* upload extracted.
C9_PrefixPerDocument ==
  /\ \A t \in extractedTables : GetPdfDocument(t.documentId) # {}
  /\ \A d \in pdfDocuments :
       /\ Cardinality(CreatorsOf(d.id)) = 1
       /\ \A u \in CreatorsOf(d.id) :
            LET T == reqs[u].tables
                k == Cardinality(RowsOf(d.id))
            IN /\ k <= Len(T)
               /\ \A i \in 1..k : \E row \in RowsOf(d.id) : RowHolds(row, T[i])
               /\ \A row \in RowsOf(d.id) : row.tableData[1] = u

C9_Witness ==
  \E r, o \in Uploads :
    /\ r # o
    /\ reqs[r].error.at = "createTable" /\ RowsOf(reqs[r].docId) # {}
    /\ reqs[o].pc = "createTable" /\ RowsOf(reqs[o].docId) # {}
    /\ reqs[o].docId < reqs[r].docId

\* C10: whenever the event loop can dispatch a request the API router is
\* installed, so every API path is answered by the router; the router comes
\* before the Vite middleware or the static files in the stack and the
\* error-handling middleware after all of them.
C10_StartupOrder ==
  /\ EventLoopFree => \A p \in ApiPaths : FirstHandler(stack, p) = "router"
  /\ \A i, j \in 1..Len(stack) :
       /\ (stack[i] = "router" /\ stack[j] \in {"vite", "static"}) => i < j
       /\ (stack[i] \in {"router", "vite", "static"} /\ stack[j] = "errorHandler") => i < j
  /\ \A r \in Reqs :
       reqs[r].kind \in {"extract", "tableExcel", "docExcel"} =>
         reqs[r].handledBy \in {"router", "errorHandler", "finalhandler"}
  /\ mainPc = "done" => stack = RunningStack(env)

C10_Witness ==
  /\ mainPc = "awaitVite"
  /\ \E r \in Uploads : reqs[r].handledBy = "router" /\ reqs[r].pc = "done"
  /\ \E r \in Reqs : reqs[r].kind = "page" /\ reqs[r].handledBy = "finalhandler"

====
